---- MODULE Spec2Model ----
(***************************************************************************)
(* CosmosRetryPolicy (retry/cosmos_retry_policy.go): a gocql.RetryPolicy   *)
(* that admits attempts against MaxRetryCount (Attempt) and classifies a   *)
(* failure as Retry or Rethrow (GetRetryType), sleeping for a back-off     *)
(* parsed from, or computed for, a rate-limiting (429) error message.      *)
(*                                                                         *)
(* Strings are sequences of one-character strings, so that the string      *)
(* functions the code calls (Contains, Split, TrimSpace, Atoi) are         *)
(* computed character by character.                                        *)
(*                                                                         *)
(* A time.Duration is an int64 count of nanoseconds.  It is represented    *)
(* as [ms, ns] standing for ms * Millisecond + ns with 0 <= ns <           *)
(* Millisecond, which keeps every number within the checker's integers.    *)
(***************************************************************************)
EXTENDS Integers, Sequences, FiniteSets, TLC

VARIABLES
    MaxRetryCount,          \* crp.MaxRetryCount
    FixedBackOffTimeMs,     \* crp.FixedBackOffTimeMs
    GrowingBackOffTimeMs,   \* crp.GrowingBackOffTimeMs
    numAttempts,            \* crp.numAttempts
    op,                     \* the last call made on the policy
    rq,                     \* rq.Attempts() of the last Attempt call
    err,                    \* the error passed to the last GetRetryType call
    allowed,                \* the boolean the last Attempt call returned
    retryType,              \* the RetryType the last GetRetryType call returned
    retryAfterMs,           \* the local retryAfterMs of the last GetRetryType call: <<>> or <<d>>
    slept,                  \* the arguments of the time.Sleep calls of the last call, in order
    panicked,               \* a call has panicked (index out of range) and did not return
    repeated,               \* the last call was Attempt, and so was the call before it, with the same rq.Attempts()
    lastAdmit,              \* concurrent callers: rq.Attempts() of the most recent Attempt call of any caller
    callers,                \* concurrent callers: for each caller, its query and its call of GetRetryType
    loop                    \* the retry loop of one query: its position, attempt count and admitted attempts

vars == <<MaxRetryCount, FixedBackOffTimeMs, GrowingBackOffTimeMs, numAttempts,
          op, rq, err, allowed, retryType, retryAfterMs, slept, panicked,
          repeated, lastAdmit, callers, loop>>

\* the result of the last call, as the sequential callers observe it
lastCall == <<op, rq, err, allowed, retryType, retryAfterMs, slept, repeated>>

crp == <<MaxRetryCount, FixedBackOffTimeMs, GrowingBackOffTimeMs, numAttempts>>

(***************************************************************************)
(* Bounds of the model.                                                    *)
(***************************************************************************)
\* the largest MaxRetryCount a policy is constructed with
MaxRetryBound == 2
\* the largest attempt count rq.Attempts() a query reports
MaxAttemptNo == 3
\* the largest attempt count of the queries of the concurrent callers
MaxConcAttemptNo == 2
\* the largest number of GetRetryType calls of one concurrent caller
MaxConcCalls == 1

(***************************************************************************)
(* Program constants.                                                      *)
(***************************************************************************)
defaultGrowingBackOffTimeMs == 1000
defaultFixedBackOffTimeMs == 5000
growingBackOffSaltMillis == 2000
\* time.Millisecond, in nanoseconds
Millisecond == 1000000

\* "TooManyRequests (429)"
rateLimitingErrPart ==
    <<"T", "o", "o", "M", "a", "n", "y", "R", "e", "q", "u", "e", "s", "t", "s", " ", "(", "4", "2", "9", ")">>
\* "RetryAfterMs"
retryAfterKey ==
    <<"R", "e", "t", "r", "y", "A", "f", "t", "e", "r", "M", "s">>

(***************************************************************************)
(* time.Duration                                                           *)
(***************************************************************************)
\* time.Duration(n): n nanoseconds
Duration(n) == [ms |-> n \div Millisecond, ns |-> n % Millisecond]

\* time.Duration(r) * time.Millisecond: r milliseconds
DurationMs(r) == [ms |-> r, ns |-> 0]

\* d1 < d2 on time.Duration
DurationLess(d1, d2) == d1.ms < d2.ms \/ (d1.ms = d2.ms /\ d1.ns < d2.ns)

(***************************************************************************)
(* package strings, package strconv                                        *)
(***************************************************************************)
\* strings.Contains(s, substr)
Contains(s, substr) ==
    \E i \in 1..(Len(s) - Len(substr) + 1) :
        SubSeq(s, i, i + Len(substr) - 1) = substr

\* the index of the first occurrence of the character sep in s, 0 if none
IndexOf(s, sep) ==
    IF \E i \in 1..Len(s) : s[i] = sep
    THEN CHOOSE i \in 1..Len(s) : s[i] = sep /\ \A j \in 1..(i - 1) : s[j] # sep
    ELSE 0

\* strings.Split(s, sep) for a one-character separator: the substrings
\* between the separators, <<s>> when s has no separator
RECURSIVE Split(_, _)
Split(s, sep) ==
    LET i == IndexOf(s, sep) IN
    IF i = 0 THEN <<s>>
    ELSE <<SubSeq(s, 1, i - 1)>> \o Split(SubSeq(s, i + 1, Len(s)), sep)

\* the white space strings.TrimSpace removes
IsSpace(c) == c \in {" ", "\t", "\n", "\r"}

\* strings.TrimSpace(s): s without its leading and trailing white space
RECURSIVE TrimSpace(_)
TrimSpace(s) ==
    IF s = <<>> THEN s
    ELSE IF IsSpace(s[1]) THEN TrimSpace(Tail(s))
    ELSE IF IsSpace(s[Len(s)]) THEN TrimSpace(SubSeq(s, 1, Len(s) - 1))
    ELSE s

DigitChars == <<"0", "1", "2", "3", "4", "5", "6", "7", "8", "9">>

IsDigit(c) == \E d \in 1..10 : DigitChars[d] = c

DigitVal(c) == (CHOOSE d \in 1..10 : DigitChars[d] = c) - 1

\* the value of a string of decimal digits
RECURSIVE ParseDigits(_)
ParseDigits(s) ==
    IF s = <<>> THEN 0
    ELSE ParseDigits(SubSeq(s, 1, Len(s) - 1)) * 10 + DigitVal(s[Len(s)])

\* Atoi with the value -1 on a syntax error
AtoiMinusOneOnError(s) ==
    LET signed == s # <<>> /\ s[1] \in {"+", "-"}
        digits == IF signed THEN Tail(s) ELSE s
    IN  IF digits = <<>> \/ \E i \in 1..Len(digits) : ~IsDigit(digits[i])
        THEN [r |-> 0 - 1, err |-> TRUE]
        ELSE [r |-> IF signed /\ s[1] = "-" THEN 0 - ParseDigits(digits)
                    ELSE ParseDigits(digits),
              err |-> FALSE]

\* strconv.Atoi(s): an optional sign, then one or more decimal digits;
\* any other string is a syntax error, with value 0
Atoi(s) ==
    LET signed == s # <<>> /\ s[1] \in {"+", "-"}
        digits == IF signed THEN Tail(s) ELSE s
    IN  IF digits = <<>> \/ \E i \in 1..Len(digits) : ~IsDigit(digits[i])
        THEN [r |-> 0, err |-> TRUE]
        ELSE [r |-> IF signed /\ s[1] = "-" THEN 0 - ParseDigits(digits)
                    ELSE ParseDigits(digits),
              err |-> FALSE]

\* rand.Intn(n) with the bound n itself among the values
IntnInclusive(n) == {0, n \div 2, n}

\* rand.Intn(n): a value of [0, n); the model draws the least, the middle
\* and the greatest value of the interval
Intn(n) == {0, n \div 2, n - 1}

(***************************************************************************)
(* Inputs: the error messages and errors handed to GetRetryType.           *)
(***************************************************************************)
\* "Request rate is large: ActivityID=c268"
msgHead ==
    <<"R", "e", "q", "u", "e", "s", "t", " ", "r", "a", "t", "e", " ", "i", "s", " ", "l", "a", "r", "g", "e", ":", " ", "A", "c", "t", "i", "v", "i", "t", "y", "I", "D", "=", "c", "2", "6", "8">>
\* " Additional details='Response status code: TooManyRequests (429); Substatus: 3200'"
msgDetails ==
    <<" ", "A", "d", "d", "i", "t", "i", "o", "n", "a", "l", " ", "d", "e", "t", "a", "i", "l", "s", "=", "'", "R", "e", "s", "p", "o", "n", "s", "e", " ", "s", "t", "a", "t", "u", "s", " ", "c", "o", "d", "e", ":", " ", "T", "o", "o", "M", "a", "n", "y", "R", "e", "q", "u", "e", "s", "t", "s", " ", "(", "4", "2", "9", ")", ";", " ", "S", "u", "b", "s", "t", "a", "t", "u", "s", ":", " ", "3", "2", "0", "0", "'">>
\* " Additional details='none'"
msgPlainDetails ==
    <<" ", "A", "d", "d", "i", "t", "i", "o", "n", "a", "l", " ", "d", "e", "t", "a", "i", "l", "s", "=", "'", "n", "o", "n", "e", "'">>
\* "error: today is not your day!"
msgNotYourDay ==
    <<"e", "r", "r", "o", "r", ":", " ", "t", "o", "d", "a", "y", " ", "i", "s", " ", "n", "o", "t", " ", "y", "o", "u", "r", " ", "d", "a", "y", "!">>
\* " Substatus=3200"
msgSubstatus ==
    <<" ", "S", "u", "b", "s", "t", "a", "t", "u", "s", "=", "3", "2", "0", "0">>

\* the decimal representation of a natural number
RECURSIVE NatToStr(_)
NatToStr(n) ==
    IF n < 10 THEN <<DigitChars[n + 1]>>
    ELSE NatToStr(n \div 10) \o <<DigitChars[(n % 10) + 1]>>

\* the decimal representation of an integer, as the server writes it
IntToStr(v) == IF v < 0 THEN <<"-">> \o NatToStr(0 - v) ELSE NatToStr(v)

\* the values the server sends as RetryAfterMs
ServerValues == {-1, 0, 42, 304}

\* the field "RetryAfterMs=v", after the white space lead
RetryAfterField(lead, v) == lead \o retryAfterKey \o <<"=">> \o IntToStr(v)

\* the white space in front of the second field
Leads == {<<>>, <<" ">>}

\* values of a RetryAfterMs field that are not the decimal representation
\* of an integer: "abc", " 42", "", "4x2", "-"
BadValues == {<<"a", "b", "c">>, <<" ", "4", "2">>, <<>>, <<"4", "x", "2">>, <<"-">>}

\* a rate-limiting message with the given second comma-delimited field
RateLimited(field) == msgHead \o <<",">> \o field \o <<",">> \o msgDetails

\* rateLimitedErrMsg and its variants: the second field is RetryAfterMs=v
MsgsWithServerValue ==
    {RateLimited(RetryAfterField(lead, v)) : lead \in Leads, v \in ServerValues}

\* the second field has the key RetryAfterMs and a value that is not an integer
MsgsWithBadValue ==
    {RateLimited(<<" ">> \o retryAfterKey \o <<"=">> \o b) : b \in BadValues}

\* other spellings of the second field: "\tRetryAfterMs =9" (white space
\* around the key), " RetryAfterMs=+7", " RetryAfterMs=42=7"
MsgsWithOtherSpelling ==
    { RateLimited(<<"\t">> \o retryAfterKey \o <<" ", "=", "9">>),
      RateLimited(<<" ">> \o retryAfterKey \o <<"=", "+", "7">>),
      RateLimited(<<" ">> \o retryAfterKey \o <<"=", "4", "2", "=", "7">>) }

\* rateLimitedErrMsgWithoutRetryAfterMs: no field has the key RetryAfterMs
rateLimitedErrMsgWithoutRetryAfterMs == msgHead \o <<",">> \o msgDetails

\* rate-limiting messages whose second field is not a RetryAfterMs field:
\* without any, with a lower-case key, with RetryAfterMs as the third field
MsgsWithoutRetryAfter ==
    { rateLimitedErrMsgWithoutRetryAfterMs,
      RateLimited(<<" ", "r", "e", "t", "r", "y", "a", "f", "t", "e", "r", "m", "s", "=", "5">>),
      msgHead \o <<",">> \o msgSubstatus \o <<",">> \o RetryAfterField(<<" ">>, 42)
              \o <<",">> \o msgDetails }

\* malformed rate-limiting messages: no comma at all, and a second field
\* that is the key RetryAfterMs without "=value"
MsgsMalformed ==
    { rateLimitingErrPart,
      msgHead \o <<";">> \o msgDetails,
      RateLimited(<<" ">> \o retryAfterKey) }

\* messages without the rate-limiting marker
MsgsNotRateLimited ==
    { msgNotYourDay,
      msgHead \o <<",">> \o RetryAfterField(<<" ">>, 42) \o <<",">> \o msgPlainDetails }

Messages ==
    MsgsWithServerValue \cup MsgsWithBadValue \cup MsgsWithOtherSpelling
        \cup MsgsWithoutRetryAfter \cup MsgsMalformed \cup MsgsNotRateLimited

\* the types of the errors handed to GetRetryType: the gocql request errors
\* of the tests and "error", any other error (errors.New)
GocqlErrTypes == {"RequestErrReadTimeout", "RequestErrUnavailable", "RequestErrWriteTimeout"}

\* the messages the gocql request errors carry in the model
RequestErrMessages == {msgNotYourDay, RateLimited(RetryAfterField(<<" ">>, 42))}

Errors ==
    [type : GocqlErrTypes, msg : RequestErrMessages]
        \cup [type : {"error"}, msg : Messages]

NoError == [type |-> "nil", msg |-> <<>>]

\* the configurations a policy is constructed with
MaxRetryCounts == (0 - 2)..MaxRetryBound
FixedBackOffTimes == {defaultFixedBackOffTimeMs, 300, 0 - 100}
GrowingBackOffTimes == {defaultGrowingBackOffTimeMs, 250, 0 - 500}

(***************************************************************************)
(* The policy.                                                             *)
(***************************************************************************)
\* the goroutines that share one policy
Callers == {"A", "B"}

\* a caller that is not inside GetRetryType: the attempt count of its
\* query, the verdict of its last GetRetryType call and the number of its
\* GetRetryType calls
IdleCaller(attempts, verdict, calls) ==
    [pc |-> "idle", attempts |-> attempts, verdict |-> verdict, calls |-> calls,
     err |-> NoError, sleepFor |-> Duration(0), elapsed |-> Duration(0)]

\* a caller inside time.Sleep(sleepFor) of GetRetryType(e), elapsed after
\* the call of time.Sleep
SleepingCaller(attempts, calls, e, sleepFor, elapsed) ==
    [pc |-> "sleeping", attempts |-> attempts, verdict |-> "none", calls |-> calls,
     err |-> e, sleepFor |-> sleepFor, elapsed |-> elapsed]

\* NewCosmosRetryPolicy, or a CosmosRetryPolicy literal that sets the
\* exported fields
Init ==
    /\ MaxRetryCount \in MaxRetryCounts
    /\ FixedBackOffTimeMs \in FixedBackOffTimes
    /\ GrowingBackOffTimeMs \in GrowingBackOffTimes
    /\ numAttempts = 0
    /\ op = "new"
    /\ rq = 0
    /\ err = NoError
    /\ allowed = FALSE
    /\ retryType = "none"
    /\ retryAfterMs = <<>>
    /\ slept = <<>>
    /\ panicked = FALSE
    /\ repeated = FALSE
    /\ lastAdmit = 0
    /\ callers = [c \in Callers |-> IdleCaller(0, "none", 0)]
    /\ loop = [pc |-> "attempt", attempts |-> 0, admitted |-> 0]

\* Attempt with < in place of <=
AttemptAllowedStrict(attempts) == attempts < MaxRetryCount \/ MaxRetryCount = -1

\* Attempt without the test for infinite retries
AttemptAllowedFinite(attempts) == attempts <= MaxRetryCount

\* rq.Attempts() <= crp.MaxRetryCount || crp.MaxRetryCount == -1
AttemptAllowed(attempts) == attempts <= MaxRetryCount \/ MaxRetryCount = -1

\* Attempt that records the attempt count only when it admits the attempt
AttemptRecordsIfAllowed(attempts) ==
    /\ ~panicked
    /\ numAttempts' = IF AttemptAllowed(attempts) THEN attempts ELSE numAttempts
    /\ allowed' = AttemptAllowed(attempts)
    /\ op' = "Attempt"
    /\ rq' = attempts
    /\ err' = NoError
    /\ retryType' = "none"
    /\ retryAfterMs' = <<>>
    /\ slept' = <<>>
    /\ repeated' = (op = "Attempt" /\ rq = attempts)
    /\ UNCHANGED <<MaxRetryCount, FixedBackOffTimeMs, GrowingBackOffTimeMs, panicked>>
    /\ UNCHANGED <<lastAdmit, callers, loop>>

\* Attempt that compares the attempt count recorded before the call
AttemptComparesRecorded(attempts) ==
    /\ ~panicked
    /\ numAttempts' = attempts
    /\ allowed' = (numAttempts <= MaxRetryCount \/ MaxRetryCount = -1)
    /\ op' = "Attempt"
    /\ rq' = attempts
    /\ err' = NoError
    /\ retryType' = "none"
    /\ retryAfterMs' = <<>>
    /\ slept' = <<>>
    /\ repeated' = (op = "Attempt" /\ rq = attempts)
    /\ UNCHANGED <<MaxRetryCount, FixedBackOffTimeMs, GrowingBackOffTimeMs, panicked>>
    /\ UNCHANGED <<lastAdmit, callers, loop>>

\* Attempt(rq), for a query with rq.Attempts() = attempts
Attempt(attempts) ==
    /\ ~panicked
    /\ numAttempts' = attempts
    /\ allowed' = AttemptAllowed(attempts)
    /\ op' = "Attempt"
    /\ rq' = attempts
    /\ err' = NoError
    /\ retryType' = "none"
    /\ retryAfterMs' = <<>>
    /\ slept' = <<>>
    /\ repeated' = (op = "Attempt" /\ rq = attempts)
    /\ UNCHANGED <<MaxRetryCount, FixedBackOffTimeMs, GrowingBackOffTimeMs, panicked>>
    /\ UNCHANGED <<lastAdmit, callers, loop>>

\* the outcomes of a call of getRetryAfterMs: a run-time panic, or a return
Panic == [panic |-> TRUE, d |-> Duration(0)]
Return(d) == [panic |-> FALSE, d |-> d]

\* the fixed back-off in place of the value when the value does not parse
ServerBackOffOrFixed(value) ==
    IF Atoi(value).err THEN DurationMs(FixedBackOffTimeMs) ELSE DurationMs(Atoi(value).r)

\* the parsed value taken as nanoseconds, without * time.Millisecond
ServerBackOffNanos(value) == Duration(Atoi(value).r)

\* r, _ := strconv.Atoi(value); time.Duration(r) * time.Millisecond
ServerBackOff(value) == DurationMs(Atoi(value).r)

\* time.Duration(crp.FixedBackOffTimeMs) * time.Millisecond
FixedBackOff == DurationMs(FixedBackOffTimeMs)

\* time.Duration(crp.GrowingBackOffTimeMs*crp.numAttempts +
\* rand.Intn(growingBackOffSaltMillis)) * time.Millisecond, for every value
\* rand.Intn can return
GrowingBackOff ==
    {DurationMs(GrowingBackOffTimeMs * numAttempts + salt) :
        salt \in Intn(growingBackOffSaltMillis)}

\* the sentinel as -1 millisecond
NotRateLimitedMs == DurationMs(0 - 1)

\* return -1: the duration of a message that is not a rate-limiting error
NotRateLimited == Duration(0 - 1)

\* the test for a finite max retry count as MaxRetryCount > 0
FiniteMaxRetryCountPositive == MaxRetryCount > 0

\* crp.MaxRetryCount > -1: finite max retry count
FiniteMaxRetryCount == MaxRetryCount > 0 - 1

\* getRetryAfterMs(errMsg): the set of its outcomes.  parts[1] and
\* retryAfterMs[1] of the code are parts[2] and retryAfterMsParts[2] here
\* (sequences start at 1); indexing past the end of the slice panics.
getRetryAfterMs(errMsg) ==
    IF Contains(errMsg, rateLimitingErrPart)
    THEN LET parts == Split(errMsg, ",") IN
         IF Len(parts) < 2 THEN {Panic}
         ELSE LET retryPart == parts[2]
                  retryAfterMsParts == Split(retryPart, "=")
              IN  IF TrimSpace(retryAfterMsParts[1]) = retryAfterKey
                  THEN IF Len(retryAfterMsParts) < 2 THEN {Panic}
                       ELSE {Return(ServerBackOff(retryAfterMsParts[2]))}
                  ELSE IF FiniteMaxRetryCount
                       THEN {Return(FixedBackOff)}
                       ELSE {Return(d) : d \in GrowingBackOff}
    ELSE {Return(NotRateLimited)}

\* the type switch without the case *gocql.RequestErrUnavailable
RetriedAtOnceNoUnavailable(e) ==
    e.type \in {"RequestErrReadTimeout", "RequestErrWriteTimeout"}

\* the cases *gocql.RequestErrReadTimeout, *gocql.RequestErrUnavailable and
\* *gocql.RequestErrWriteTimeout of the type switch
RetriedAtOnce(e) ==
    e.type \in {"RequestErrReadTimeout", "RequestErrUnavailable", "RequestErrWriteTimeout"}

\* the test for the sentinel as retryAfterMs < 0
IsNotApplicableNegative(d) == d.ms < 0

\* retryAfterMs == -1
IsNotApplicable(d) == d = Duration(0 - 1)

\* the body of GetRetryType(err): the type switch, and in the default case
\* the delay, the sleep and the verdict
GetRetryTypeCall(e) ==
    /\ ~panicked
    /\ op' = "GetRetryType"
    /\ err' = e
    /\ rq' = 0
    /\ allowed' = FALSE
    /\ repeated' = FALSE
    /\ UNCHANGED crp
    /\ IF RetriedAtOnce(e)
       THEN /\ retryType' = "Retry"
            /\ retryAfterMs' = <<>>
            /\ slept' = <<>>
            /\ panicked' = FALSE
       ELSE \E out \in getRetryAfterMs(e.msg) :
                IF out.panic
                THEN /\ panicked' = TRUE
                     /\ retryType' = "none"
                     /\ retryAfterMs' = <<>>
                     /\ slept' = <<>>
                ELSE /\ panicked' = FALSE
                     /\ retryAfterMs' = <<out.d>>
                     /\ IF IsNotApplicable(out.d)
                        THEN /\ retryType' = "Rethrow"
                             /\ slept' = <<>>
                        ELSE /\ slept' = <<out.d>>
                             /\ retryType' = "Retry"

\* GetRetryType(err), called on its own
GetRetryType(e) ==
    /\ GetRetryTypeCall(e)
    /\ UNCHANGED <<lastAdmit, callers, loop>>

Next ==
    \/ \E attempts \in 0..MaxAttemptNo : Attempt(attempts)
    \/ \E e \in Errors : GetRetryType(e)

Spec == Init /\ [][Next]_vars

(***************************************************************************)
(* Concurrent callers: goroutines that share one policy.  GetRetryType is  *)
(* two steps, the computation of the delay up to the call of time.Sleep,   *)
(* and the return from time.Sleep with the verdict.                        *)
(***************************************************************************)
\* the errors the concurrent callers classify
ConcErrors ==
    { [type |-> "RequestErrReadTimeout", msg |-> msgNotYourDay],
      [type |-> "error", msg |-> msgNotYourDay],
      [type |-> "error", msg |-> RateLimited(RetryAfterField(<<" ">>, 42))],
      [type |-> "error", msg |-> rateLimitedErrMsgWithoutRetryAfterMs] }

\* the policies the concurrent callers share
InitConc ==
    /\ Init
    /\ MaxRetryCount \in {0 - 1, 1}
    /\ FixedBackOffTimeMs = 300
    /\ GrowingBackOffTimeMs = defaultGrowingBackOffTimeMs

\* Attempt that keeps the largest attempt count it has seen
ConcAttemptKeepsMax(c, attempts) ==
    /\ ~panicked
    /\ callers[c].pc = "idle"
    /\ numAttempts' = IF attempts > numAttempts THEN attempts ELSE numAttempts
    /\ lastAdmit' = attempts
    /\ callers' = [callers EXCEPT ![c] = IdleCaller(attempts, callers[c].verdict, callers[c].calls)]
    /\ UNCHANGED <<MaxRetryCount, FixedBackOffTimeMs, GrowingBackOffTimeMs, panicked>>
    /\ UNCHANGED <<lastCall, loop>>

\* caller c calls Attempt(rq) for its query, with rq.Attempts() = attempts
ConcAttempt(c, attempts) ==
    /\ ~panicked
    /\ callers[c].pc = "idle"
    /\ numAttempts' = attempts
    /\ lastAdmit' = attempts
    /\ callers' = [callers EXCEPT ![c] = IdleCaller(attempts, callers[c].verdict, callers[c].calls)]
    /\ UNCHANGED <<MaxRetryCount, FixedBackOffTimeMs, GrowingBackOffTimeMs, panicked>>
    /\ UNCHANGED <<lastCall, loop>>

\* caller c calls GetRetryType(e): up to the return of Retry or Rethrow
\* without a sleep, or up to the call of time.Sleep(retryAfterMs)
ConcGetRetryType(c, e) ==
    /\ ~panicked
    /\ callers[c].pc = "idle"
    /\ callers[c].calls < MaxConcCalls
    /\ UNCHANGED <<crp, lastCall, lastAdmit, loop>>
    /\ IF RetriedAtOnce(e)
       THEN /\ callers' = [callers EXCEPT ![c] = IdleCaller(callers[c].attempts, "Retry", callers[c].calls + 1)]
            /\ panicked' = FALSE
       ELSE \E out \in getRetryAfterMs(e.msg) :
                IF out.panic
                THEN /\ panicked' = TRUE
                     /\ UNCHANGED callers
                ELSE /\ panicked' = FALSE
                     /\ IF IsNotApplicable(out.d)
                        THEN callers' = [callers EXCEPT ![c] =
                                 IdleCaller(callers[c].attempts, "Rethrow", callers[c].calls + 1)]
                        ELSE callers' = [callers EXCEPT ![c] =
                                 SleepingCaller(callers[c].attempts, callers[c].calls + 1,
                                     e, out.d, Duration(0))]

\* caller c is inside time.Sleep and its duration has elapsed
SleepIsOver(c) ==
    /\ callers[c].pc = "sleeping"
    /\ ~DurationLess(callers[c].elapsed, callers[c].sleepFor)

\* the callers inside time.Sleep whose duration has not elapsed
StillSleeping == {c \in Callers : callers[c].pc = "sleeping" /\ ~SleepIsOver(c)}

\* the milliseconds until the first of the sleeping callers is due
NextDue ==
    LET left(c) == callers[c].sleepFor.ms - callers[c].elapsed.ms
    IN  left(CHOOSE c \in StillSleeping : \A d \in StillSleeping : left(c) <= left(d))

\* time passes, up to the moment the first of the sleeping callers is due
Tick ==
    /\ ~panicked
    /\ StillSleeping # {}
    /\ callers' = [c \in Callers |->
                      IF c \in StillSleeping
                      THEN SleepingCaller(callers[c].attempts, callers[c].calls, callers[c].err,
                               callers[c].sleepFor,
                               DurationMs(callers[c].elapsed.ms + NextDue))
                      ELSE callers[c]]
    /\ UNCHANGED <<crp, lastCall, lastAdmit, loop, panicked>>

\* time.Sleep returns as soon as the duration of any caller has elapsed
WakeWhenAnyIsDue(c) ==
    /\ ~panicked
    /\ callers[c].pc = "sleeping"
    /\ \E d \in Callers : SleepIsOver(d)
    /\ callers' = [callers EXCEPT ![c] = IdleCaller(callers[c].attempts, "Retry", callers[c].calls)]
    /\ UNCHANGED <<crp, lastCall, lastAdmit, loop, panicked>>

\* time.Sleep(retryAfterMs) returns in caller c, and GetRetryType returns
\* gocql.Retry
Wake(c) ==
    /\ ~panicked
    /\ SleepIsOver(c)
    /\ callers' = [callers EXCEPT ![c] = IdleCaller(callers[c].attempts, "Retry", callers[c].calls)]
    /\ UNCHANGED <<crp, lastCall, lastAdmit, loop, panicked>>

NextConc ==
    \/ \E c \in Callers : \E attempts \in 0..MaxConcAttemptNo : ConcAttempt(c, attempts)
    \/ \E c \in Callers : \E e \in ConcErrors : ConcGetRetryType(c, e)
    \/ Tick
    \/ \E c \in Callers : Wake(c)

SpecConc == InitConc /\ [][NextConc]_vars

(***************************************************************************)
(* The retry loop of one query whose every attempt fails: the caller asks  *)
(* Attempt with the attempt count, starting at 0; when admitted it         *)
(* executes the query, which fails, hands the error to GetRetryType and,   *)
(* on Retry, goes round again with the attempt count increased by one.     *)
(***************************************************************************)
\* the attempt count at which the model leaves a loop that has not stopped
LoopCap == MaxRetryBound + 1

\* the retryable errors the attempts of the loop fail with
LoopErrors ==
    { [type |-> "RequestErrUnavailable", msg |-> msgNotYourDay],
      [type |-> "error", msg |-> RateLimited(RetryAfterField(<<" ">>, 42))],
      [type |-> "error", msg |-> rateLimitedErrMsgWithoutRetryAfterMs] }

\* the caller asks Attempt whether the query may be executed (again)
LoopAttempt ==
    /\ ~panicked
    /\ loop.pc = "attempt"
    /\ numAttempts' = loop.attempts
    /\ allowed' = AttemptAllowed(loop.attempts)
    /\ op' = "Attempt"
    /\ rq' = loop.attempts
    /\ err' = NoError
    /\ retryType' = "none"
    /\ retryAfterMs' = <<>>
    /\ slept' = <<>>
    /\ repeated' = FALSE
    /\ loop' = IF AttemptAllowed(loop.attempts)
               THEN [loop EXCEPT !.pc = "query", !.admitted = @ + 1]
               ELSE [loop EXCEPT !.pc = "stopped"]
    /\ UNCHANGED <<MaxRetryCount, FixedBackOffTimeMs, GrowingBackOffTimeMs, panicked>>
    /\ UNCHANGED <<lastAdmit, callers>>

\* the admitted attempt fails with the error e, and the caller acts on the
\* verdict of GetRetryType
LoopQueryFails(e) ==
    /\ loop.pc = "query"
    /\ loop.attempts < LoopCap
    /\ GetRetryTypeCall(e)
    /\ loop' = IF retryType' = "Retry"
               THEN [loop EXCEPT !.pc = "attempt", !.attempts = @ + 1]
               ELSE [loop EXCEPT !.pc = "rethrown"]
    /\ UNCHANGED <<lastAdmit, callers>>

NextLoop ==
    \/ LoopAttempt
    \/ \E e \in LoopErrors : LoopQueryFails(e)

\* the caller is sequential code: each call returns and the loop goes on
SpecLoop ==
    /\ Init
    /\ [][NextLoop]_vars
    /\ WF_vars(LoopAttempt)
    /\ WF_vars(\E e \in LoopErrors : LoopQueryFails(e))

(***************************************************************************)
(* Properties.                                                             *)
(***************************************************************************)
\* the last call was GetRetryType on an error that is none of the three
\* gocql request errors
ClassifiedGeneric == op = "GetRetryType" /\ err.type = "error"

\* the message carries the rate-limiting marker
HasMarker(msg) == Contains(msg, rateLimitingErrPart)

\* the comma-delimited fields of a message, and the key of a field
Fields(msg) == Split(msg, ",")
FieldKey(field) == TrimSpace(Split(field, "=")[1])

\* the message has a second field, and it is not a RetryAfterMs field
SecondFieldNotRetryAfter(msg) ==
    Len(Fields(msg)) >= 2 /\ FieldKey(Fields(msg)[2]) # retryAfterKey

\* no field of the message is a RetryAfterMs field
NoRetryAfterField(msg) ==
    \A i \in 1..Len(Fields(msg)) : FieldKey(Fields(msg)[i]) # retryAfterKey

\* C1: for a policy with MaxRetryCount = M >= 0, Attempt returns true
\* exactly when the attempt count is at most M.
C1_AdmitIffWithinMax ==
    (op = "Attempt" /\ MaxRetryCount >= 0) => (allowed <=> rq <= MaxRetryCount)

C1_Witness ==
    op = "Attempt" /\ MaxRetryCount >= 0 /\ rq > MaxRetryCount /\ ~allowed

\* C2: for a policy with MaxRetryCount = -1, Attempt returns true for every
\* attempt count, in every reachable state.
C2_UnboundedAlwaysAdmits ==
    (op = "Attempt" /\ MaxRetryCount = -1) => allowed

C2_Witness ==
    op = "Attempt" /\ MaxRetryCount = -1 /\ rq = MaxAttemptNo /\ allowed

\* C3: for a read timeout, an unavailable and a write timeout error,
\* GetRetryType returns Retry and does not sleep, whatever the policy's
\* fields are.
C3_RequestErrorsRetryAtOnce ==
    (op = "GetRetryType"
        /\ err.type \in {"RequestErrReadTimeout", "RequestErrUnavailable", "RequestErrWriteTimeout"})
    => (retryType = "Retry" /\ slept = <<>> /\ ~panicked)

C3_Witness ==
    /\ op = "GetRetryType"
    /\ err.type = "RequestErrUnavailable"
    /\ HasMarker(err.msg)
    /\ numAttempts > 0
    /\ retryType = "Retry"
    /\ slept = <<>>

\* C4: for an error whose message lacks the rate-limiting marker the delay
\* is the sentinel -1 and the verdict is Rethrow, without a sleep; every
\* delay returned for a message with the marker differs from the sentinel.
C4_NotRateLimitedIsRethrown ==
    ClassifiedGeneric =>
        IF HasMarker(err.msg)
        THEN retryAfterMs # <<[ms |-> 0 - 1, ns |-> Millisecond - 1]>>
        ELSE /\ retryAfterMs = <<[ms |-> 0 - 1, ns |-> Millisecond - 1]>>
             /\ retryType = "Rethrow"
             /\ slept = <<>>

C4_Witness ==
    /\ ClassifiedGeneric
    /\ ~HasMarker(err.msg)
    /\ Len(Fields(err.msg)) >= 2
    /\ retryType = "Rethrow"

\* C5: for a rate-limiting message whose second field is RetryAfterMs=v,
\* the delay is v milliseconds, whatever the policy's fields are.
C5_ServerValueIsTheDelay ==
    \A v \in ServerValues : \A lead \in Leads :
        (/\ ClassifiedGeneric
         /\ HasMarker(err.msg)
         /\ Len(Fields(err.msg)) >= 2
         /\ Fields(err.msg)[2] = RetryAfterField(lead, v))
        => retryAfterMs = <<[ms |-> v, ns |-> 0]>>

C5_Witness ==
    /\ ClassifiedGeneric
    /\ HasMarker(err.msg)
    /\ Len(Fields(err.msg)) >= 2
    /\ Fields(err.msg)[2] = RetryAfterField(<<" ">>, 304)
    /\ MaxRetryCount = -1
    /\ numAttempts = 2
    /\ retryAfterMs = <<[ms |-> 304, ns |-> 0]>>

C9_ClassifyAlwaysReturns ==
    op = "GetRetryType" => (~panicked /\ retryType \in {"Retry", "Rethrow"})

\* C10: the doc comment of CosmosRetryPolicy: for a rate-limiting error
\* without RetryAfterMs, the back-off is FixedBackOffTimeMs if MaxRetryCount
\* is -1, and otherwise grows as per GrowingBackOffTimeMs.
C10_DocCommentBackOff ==
    (/\ ClassifiedGeneric
     /\ HasMarker(err.msg)
     /\ NoRetryAfterField(err.msg)
     /\ retryAfterMs # <<>>)
    => LET d == retryAfterMs[1] IN
       IF MaxRetryCount = -1
       THEN d = [ms |-> FixedBackOffTimeMs, ns |-> 0]
       ELSE /\ d.ns = 0
            /\ GrowingBackOffTimeMs * numAttempts <= d.ms
            /\ d.ms < GrowingBackOffTimeMs * numAttempts + growingBackOffSaltMillis

\* the second field of the message is RetryAfterMs=v with v negative
NegativeServerValue(msg) ==
    /\ Len(Fields(msg)) >= 2
    /\ \E v \in ServerValues : \E lead \in Leads :
           v < 0 /\ Fields(msg)[2] = RetryAfterField(lead, v)

\* the delay the last GetRetryType call computed is a back-off, not the
\* sentinel
ReturnedBackOff ==
    /\ ClassifiedGeneric
    /\ retryAfterMs # <<>>
    /\ retryAfterMs # <<[ms |-> 0 - 1, ns |-> Millisecond - 1]>>

C12_OnlyMinusOneIsUnbounded ==
    /\ (op = "Attempt" /\ MaxRetryCount # -1) => (allowed <=> rq <= MaxRetryCount)
    /\ (/\ ClassifiedGeneric
        /\ HasMarker(err.msg)
        /\ SecondFieldNotRetryAfter(err.msg)
        /\ MaxRetryCount # -1)
       => retryAfterMs = <<[ms |-> FixedBackOffTimeMs, ns |-> 0]>>

\* C13: Attempt is idempotent: a call of Attempt right after a call of
\* Attempt with the same attempt count returns the same boolean and leaves
\* the policy's four fields as the first call left them.
C13_AttemptIdempotent ==
    [][(op = "Attempt" /\ op' = "Attempt" /\ rq' = rq)
        => (allowed' = allowed /\ crp' = crp /\ numAttempts' = rq)]_vars

C13_Witness ==
    /\ repeated
    /\ op = "Attempt"
    /\ MaxRetryCount >= 0
    /\ rq > MaxRetryCount
    /\ numAttempts = rq
    /\ ~allowed

\* the message has a second field with the key RetryAfterMs: the delay is
\* the server's value
ServerSuppliedPath ==
    /\ ClassifiedGeneric
    /\ HasMarker(err.msg)
    /\ Len(Fields(err.msg)) >= 2
    /\ FieldKey(Fields(err.msg)[2]) = retryAfterKey

\* C14 (as stated): GetRetryType sleeps on the server-supplied retry-after
\* path only; on every other path, the fixed and the growing back-off
\* included, it returns without sleeping.
C14_OnlyServerValueBlocks ==
    (op = "GetRetryType" /\ ~panicked) => (slept # <<>> <=> ServerSuppliedPath)

\* C14 (amended): GetRetryType sleeps for the computed delay on every
\* rate-limiting path (server value, fixed and growing back-off); it returns
\* without sleeping for the three request errors and for messages without
\* the marker.
C14_EveryRateLimitedPathBlocks ==
    (op = "GetRetryType" /\ ~panicked) =>
        /\ slept # <<>> <=> (ClassifiedGeneric /\ HasMarker(err.msg))
        /\ slept # <<>> => slept = retryAfterMs

C14_Witness ==
    /\ ClassifiedGeneric
    /\ err.msg = rateLimitedErrMsgWithoutRetryAfterMs
    /\ MaxRetryCount = 1
    /\ FixedBackOffTimeMs = 300
    /\ retryType = "Retry"
    /\ slept = <<[ms |-> 300, ns |-> 0]>>

\* C17: for a rate-limiting message whose second field has the key
\* RetryAfterMs and a value that is not an integer, the delay is 0 ms and
\* the verdict is Retry; neither the fixed nor the growing back-off is used.
C17_UnparsableValueIsZero ==
    (ClassifiedGeneric /\ err.msg \in MsgsWithBadValue) =>
        /\ retryAfterMs = <<[ms |-> 0, ns |-> 0]>>
        /\ slept = <<[ms |-> 0, ns |-> 0]>>
        /\ retryType = "Retry"

C17_Witness ==
    /\ ClassifiedGeneric
    /\ err.msg = RateLimited(<<" ">> \o retryAfterKey \o <<"=", "a", "b", "c">>)
    /\ MaxRetryCount = -1
    /\ numAttempts = 2
    /\ FixedBackOffTimeMs = defaultFixedBackOffTimeMs
    /\ retryAfterMs = <<[ms |-> 0, ns |-> 0]>>
    /\ retryType = "Retry"

\* C18: frame: Attempt sets numAttempts to the attempt count, whether it
\* returns true or false, and changes no other field; GetRetryType changes
\* none of the four fields.
C18_Frame ==
    [][/\ MaxRetryCount' = MaxRetryCount
       /\ FixedBackOffTimeMs' = FixedBackOffTimeMs
       /\ GrowingBackOffTimeMs' = GrowingBackOffTimeMs
       /\ op' = "Attempt" => numAttempts' = rq'
       /\ op' = "GetRetryType" => numAttempts' = numAttempts]_vars

C18_Witness ==
    /\ op = "Attempt"
    /\ ~allowed
    /\ rq = MaxAttemptNo
    /\ numAttempts = MaxAttemptNo
    /\ MaxRetryCount = 0

\* C15, in every state: a caller inside time.Sleep has no verdict yet, and
\* a caller whose duration has elapsed can return whatever the other
\* callers do
C15_WaitState ==
    \A c \in Callers :
        /\ callers[c].pc = "sleeping" => callers[c].verdict = "none"
        /\ SleepIsOver(c) => ENABLED Wake(c)

\* C15, in every step: a caller leaves time.Sleep only after the whole
\* duration has elapsed, and then with the verdict Retry; while it sleeps
\* the duration is not changed and the elapsed time does not go back; the
\* step in which a caller enters or leaves time.Sleep changes nothing of
\* the other callers
C15_WaitStep ==
    \A c \in Callers :
        /\ (callers[c].pc = "sleeping" /\ callers'[c].pc # "sleeping")
           => /\ ~DurationLess(callers[c].elapsed, callers[c].sleepFor)
              /\ callers'[c].verdict = "Retry"
        /\ (callers[c].pc = "sleeping" /\ callers'[c].pc = "sleeping")
           => /\ callers'[c].sleepFor = callers[c].sleepFor
              /\ ~DurationLess(callers'[c].elapsed, callers[c].elapsed)
        /\ callers'[c].pc # callers[c].pc
           => \A d \in Callers \ {c} : callers'[d] = callers[d]

\* C15: when GetRetryType sleeps, the sleep precedes the verdict and runs to
\* its end: Retry is returned only after the whole duration has elapsed, no
\* step cancels or shortens a sleep, and concurrent calls each sleep their
\* own duration, none delaying or releasing another.
C15_SleepRunsToCompletion ==
    []C15_WaitState /\ [][C15_WaitStep]_vars

C15_Witness ==
    /\ callers["A"].pc = "idle"
    /\ callers["A"].verdict = "Retry"
    /\ callers["A"].calls = 1
    /\ callers["B"].pc = "sleeping"
    /\ callers["B"].sleepFor = [ms |-> 300, ns |-> 0]
    /\ callers["B"].elapsed = [ms |-> 42, ns |-> 0]

\* a caller inside GetRetryType on the growing back-off path
OnGrowingPath(caller) ==
    /\ caller.pc = "sleeping"
    /\ MaxRetryCount = -1
    /\ HasMarker(caller.err.msg)
    /\ NoRetryAfterField(caller.err.msg)

\* C16: the multiplier of the growing back-off is the attempt count of the
\* most recent Attempt call of any caller (0 if none), not that of the
\* query whose error is classified.
C16_MultiplierIsLastAttempt ==
    [][\A c \in Callers :
        (callers[c].pc = "idle" /\ OnGrowingPath(callers'[c]))
        => \E salt \in 0..(growingBackOffSaltMillis - 1) :
             callers'[c].sleepFor =
                 [ms |-> GrowingBackOffTimeMs * lastAdmit + salt, ns |-> 0]]_vars

\* Attempt of A with 1, Attempt of B with 2, then GetRetryType of A: the
\* delay of A, 3999 ms, is computed from 2
C16_Witness ==
    /\ OnGrowingPath(callers["A"])
    /\ callers["A"].attempts = 1
    /\ callers["B"].attempts = 2
    /\ lastAdmit = 2
    /\ GrowingBackOffTimeMs = 1000
    /\ callers["A"].sleepFor = [ms |-> 3999, ns |-> 0]

\* C19, in every state of the loop: a policy with MaxRetryCount = M >= 0
\* admits at most M + 1 attempts, and exactly M + 1 when Attempt has stopped
\* the loop; once Attempt has returned false it returns false for every
\* larger attempt count; a policy with MaxRetryCount = -1 never stops it
C19_Budget ==
    /\ MaxRetryCount >= 0 => loop.admitted <= MaxRetryCount + 1
    /\ (MaxRetryCount >= 0 /\ loop.pc = "stopped")
       => (loop.admitted = MaxRetryCount + 1 /\ loop.attempts = MaxRetryCount + 1)
    /\ loop.pc = "stopped"
       => (~allowed /\ \A n \in loop.attempts..(LoopCap + 1) : ~AttemptAllowed(n))
    /\ MaxRetryCount = -1 => loop.pc # "stopped"

\* C19: attempt budget over a retry loop: with MaxRetryCount = M >= 0 and
\* attempt counts 0, 1, 2, ... Attempt returns true for exactly M + 1 calls
\* and false from then on, so a loop whose every attempt fails with a
\* retryable error stops; with MaxRetryCount = -1 Attempt never stops it.
C19_AttemptBudget ==
    /\ []C19_Budget
    /\ (MaxRetryCount >= 0) ~> (loop.pc = "stopped")

C19_Witness ==
    /\ loop.pc = "stopped"
    /\ MaxRetryCount = MaxRetryBound
    /\ loop.admitted = MaxRetryBound + 1
    /\ op = "Attempt"
    /\ ~allowed

====
